---- MODULE Spec2Model ----
(***************************************************************************)
(* Text preprocessing of chapter_recurrent-neural-networks:                *)
(* read_time_machine, tokenize, count_corpus, Vocab and                    *)
(* load_corpus_time_machine; and the head splitting of multi-head          *)
(* attention: transpose_qkv, transpose_output, MultiHeadAttention.forward. *)
(*                                                                         *)
(* A Python str is modelled as the sequence of its characters (each        *)
(* character a one-character TLA+ string), a Python list as a sequence.    *)
(* Python indices are 0-based: index i of a list is position i + 1 of the  *)
(* sequence that models it.                                                *)
(***************************************************************************)
EXTENDS Integers, Sequences, FiniteSets, TLC

VARIABLES
    tokens,           \* Vocab.__init__ argument `tokens`
    min_freq,         \* Vocab.__init__ argument `min_freq`
    reserved_tokens,  \* Vocab.__init__ argument `reserved_tokens`
    idx_to_token,     \* self.idx_to_token
    token_to_idx,     \* self.token_to_idx
    token_freqs,      \* self._token_freqs
    file,             \* the text resource read by read_time_machine (its lines)
    inputs,           \* the tensors and num_heads the attention calls are made on
    op,               \* the last call made
    arg,              \* its argument
    ret               \* its outcome: [raised |-> exception name or "", value |-> ...]

vars == <<tokens, min_freq, reserved_tokens, idx_to_token, token_to_idx,
          token_freqs, file, inputs, op, arg, ret>>

vocabVars == <<idx_to_token, token_to_idx, token_freqs>>
argVars == <<tokens, min_freq, reserved_tokens>>

----------------------------------------------------------------------------
(* Bounds of the model *)

MaxLen == 3          \* longest flat token list given to Vocab
MaxNested == 2       \* most tokens in a nested (2D) token list
MaxLines == 2        \* most lines in a nested token list, and in the file
MaxReserved == 2     \* longest reserved_tokens list
MaxMinFreq == 3      \* largest min_freq
MaxChars == 3        \* most characters in the file, newlines aside
MaxTokens == 3       \* largest max_tokens given to load_corpus_time_machine
MaxBatchSize == 2    \* largest batch_size of the attention tensors
MaxPairs == 2        \* most queries, and most key-value pairs, per batch element
MaxHiddens == 4      \* largest num_hiddens
MaxHeads == 2        \* largest num_heads
MaxValidLen == 2     \* largest entry of a one-dimensional valid_lens
MaxBatch == 2        \* longest list given to vocab[...] and to_tokens

----------------------------------------------------------------------------
(* Python values *)

Range(s) == {s[i] : i \in DOMAIN s}

Min2(a, b) == IF a <= b THEN a ELSE b
Max2(a, b) == IF a >= b THEN a ELSE b

SeqsUpTo(S, n) == UNION {[1..k -> S] : k \in 0..n}

RECURSIVE Concat(_)
\* the concatenation of a sequence of sequences
Concat(ss) == IF ss = <<>> THEN <<>> ELSE Head(ss) \o Concat(Tail(ss))

\* the literal '<unk>'
UNK == <<"<", "u", "n", "k", ">">>
\* a reserved token such as '<pad>'
PAD == <<"<", "p", "a", "d", ">">>

\* The outcome of a call: a value returned, None returned (a function that
\* ends without `return`), or an exception raised; with what it printed.
Returned(v) == [outcome |-> "value", exc |-> "", value |-> v, printed |-> <<>>]
ReturnedNone(out) == [outcome |-> "None", exc |-> "", value |-> <<>>, printed |-> out]
Raised(e) == [outcome |-> "raised", exc |-> e, value |-> <<>>, printed |-> <<>>]

\* A str, or a list or tuple of str: what `tokens` holds and vocab[...] is given.
StrElem(s) == [kind |-> "str", str |-> s, list |-> <<>>]
ListElem(l) == [kind |-> "list", str |-> <<>>, list |-> l]
TupleElem(l) == [kind |-> "tuple", str |-> <<>>, list |-> l]

\* An int, or a list or tuple of int: what to_tokens is given.
IntElem(i) == [kind |-> "int", int |-> i, list |-> <<>>]
IntListElem(l) == [kind |-> "list", int |-> 0, list |-> l]
IntTupleElem(l) == [kind |-> "tuple", int |-> 0, list |-> l]

\* isinstance(x, list)
IsList(e) == e.kind = "list"

\* isinstance(x, (list, tuple))
IsListOrTuple(e) == e.kind \in {"list", "tuple"}

\* `for token in line`: a list yields its items, a str its characters
Iterate(e) == IF e.kind = "str" THEN [i \in DOMAIN e.str |-> <<e.str[i]>>] ELSE e.list

\* list[i] of Python: negative i counts from the end, anything else outside
\* 0..len-1 raises IndexError
PyIndex(l, i) ==
    IF 0 <= i /\ i < Len(l) THEN Returned(l[i + 1])
    ELSE IF -Len(l) <= i /\ i < 0 THEN Returned(l[Len(l) + i + 1])
    ELSE Raised("IndexError")

\* list[:n] of Python
PySliceTo(l, n) ==
    IF n >= 0 THEN SubSeq(l, 1, Min2(n, Len(l)))
    ELSE SubSeq(l, 1, Max2(Len(l) + n, 0))

----------------------------------------------------------------------------
(* collections.Counter and sorted *)

RECURSIVE PositionOf(_, _, _)
\* the position of the pair of `items` whose token is t, from position k on; 0 if none
PositionOf(items, t, k) ==
    IF k > Len(items) THEN 0
    ELSE IF items[k][1] = t THEN k
    ELSE PositionOf(items, t, k + 1)

RECURSIVE CounterFrom(_, _, _)
\* collections.Counter(elems): a dict, so its items are in order of first
\* insertion, each <<token, count>>
CounterFrom(elems, k, items) ==
    IF k > Len(elems) THEN items
    ELSE LET t == elems[k]
             p == PositionOf(items, t, 1)
         IN  IF p = 0
             THEN CounterFrom(elems, k + 1, Append(items, <<t, 1>>))
             ELSE CounterFrom(elems, k + 1,
                              [items EXCEPT ![p] = <<t, items[p][2] + 1>>])

Counter(elems) == CounterFrom(elems, 1, <<>>)

RECURSIVE InsertDesc(_, _)
\* x put into the list `sorted`, which is in non-increasing order of count,
\* after every item whose count is >= x's (a stable sort keeps equal keys in
\* their original order, also under reverse=True)
InsertDesc(sorted, x) ==
    IF sorted = <<>> THEN <<x>>
    ELSE IF Head(sorted)[2] >= x[2] THEN <<Head(sorted)>> \o InsertDesc(Tail(sorted), x)
    ELSE <<x>> \o sorted

RECURSIVE SortedFrom(_, _, _)
SortedFrom(items, k, sorted) ==
    IF k > Len(items) THEN sorted
    ELSE SortedFrom(items, k + 1, InsertDesc(sorted, items[k]))

\* Mutant: sorted without reverse=True, rarest first.
SortedByFreq_Ascending(items) ==
    LET sorted == SortedFrom(items, 1, <<>>)
    IN  [i \in DOMAIN sorted |-> sorted[Len(sorted) + 1 - i]]

\* Mutant: the items left in the order the counter holds them.
SortedByFreq_Unsorted(items) == items

\* sorted(counter.items(), key=lambda x: x[1], reverse=True)
SortedByFreq(items) == SortedFrom(items, 1, <<>>)

----------------------------------------------------------------------------
(* count_corpus *)

\* [token for line in tokens for token in line]
Flatten(toks) == Concat([i \in DOMAIN toks |-> Iterate(toks[i])])

\* Mutant: a 2D list is not flattened.
count_corpus_NoFlatten(toks) == Counter([i \in DOMAIN toks |-> toks[i].str])

count_corpus(toks) ==
    IF Len(toks) = 0 \/ IsList(toks[1])
    THEN Counter(Flatten(toks))
    ELSE Counter([i \in DOMAIN toks |-> toks[i].str])

----------------------------------------------------------------------------
(* class Vocab *)

\* {token: idx for idx, token in enumerate(l)}: a later entry of l overwrites
\* an earlier one with the same token
DictOfEnumerate(l) ==
    [t \in Range(l) |->
        (CHOOSE i \in DOMAIN l : l[i] = t /\ \A j \in DOMAIN l : l[j] = t => j <= i) - 1]

\* Mutant: the token is appended even when it is already a key.
AddToken_Always(v, token) ==
    LET appended == Append(v.idx_to_token, token)
    IN  [v EXCEPT !.idx_to_token = appended,
                  !.token_to_idx = (token :> (Len(appended) - 1)) @@ v.token_to_idx]

\* Mutant: the new token is given the length of the list as its index.
AddToken_OffByOne(v, token) ==
    IF token \notin DOMAIN v.token_to_idx
    THEN LET appended == Append(v.idx_to_token, token)
         IN  [v EXCEPT !.idx_to_token = appended,
                       !.token_to_idx = (token :> Len(appended)) @@ v.token_to_idx]
    ELSE v

\* the body of `for token, freq in self._token_freqs`, once for one pair:
\* v with the token appended unless it is already a key
AddToken(v, token) ==
    IF token \notin DOMAIN v.token_to_idx
    THEN LET appended == Append(v.idx_to_token, token)
         IN  [v EXCEPT !.idx_to_token = appended,
                       !.token_to_idx = (token :> (Len(appended) - 1)) @@ v.token_to_idx]
    ELSE v

RECURSIVE AssignFrom_NoThreshold(_, _, _)
\* Mutant: the loop without its test of freq against min_freq.
AssignFrom_NoThreshold(v, k, minFreq) ==
    IF k > Len(v.token_freqs) THEN v
    ELSE AssignFrom_NoThreshold(AddToken(v, v.token_freqs[k][1]), k + 1, minFreq)

RECURSIVE AssignFrom(_, _, _)
\* the loop `for token, freq in self._token_freqs` from position k on, with
\* its break at the first freq < min_freq
AssignFrom(v, k, minFreq) ==
    IF k > Len(v.token_freqs) THEN v
    ELSE IF v.token_freqs[k][2] < minFreq THEN v
    ELSE AssignFrom(AddToken(v, v.token_freqs[k][1]), k + 1, minFreq)

\* Vocab.__init__(tokens, min_freq, reserved_tokens)
VocabNew(toks, minFreq, reserved) ==
    LET counter == count_corpus(toks)
        start == <<UNK>> \o reserved
    IN  AssignFrom([token_freqs |-> SortedByFreq(counter),
                    idx_to_token |-> start,
                    token_to_idx |-> DictOfEnumerate(start)], 1, minFreq)

\* Vocab.unk
unk == 0

\* Vocab.__len__
VocabLen(v) == Len(v.idx_to_token)

\* self.token_to_idx.get(token, self.unk)
GetOne(v, token) ==
    IF token \in DOMAIN v.token_to_idx THEN v.token_to_idx[token] ELSE unk

\* Mutant: a batch lookup leaves out the tokens that are no key.
GetItem_DropUnknown(v, e) ==
    IF ~IsListOrTuple(e) THEN GetOne(v, e.str)
    ELSE LET known == SelectSeq(e.list, LAMBDA t : t \in DOMAIN v.token_to_idx)
         IN  [j \in DOMAIN known |-> GetOne(v, known[j])]

\* Vocab.__getitem__(tokens): tokens a str, or a list or tuple of str
GetItem(v, e) ==
    IF ~IsListOrTuple(e) THEN GetOne(v, e.str)
    ELSE [j \in DOMAIN e.list |-> GetOne(v, e.list[j])]

\* Vocab.to_tokens(indices): indices an int, or a list or tuple of int
ToTokens(v, e) ==
    IF ~IsListOrTuple(e) THEN PyIndex(v.idx_to_token, e.int)
    ELSE IF \E j \in DOMAIN e.list : PyIndex(v.idx_to_token, e.list[j]).outcome = "raised"
         THEN Raised("IndexError")
         ELSE Returned([j \in DOMAIN e.list |-> PyIndex(v.idx_to_token, e.list[j]).value])

\* the Vocab object held in the state
self == [idx_to_token |-> idx_to_token, token_to_idx |-> token_to_idx,
         token_freqs |-> token_freqs]

----------------------------------------------------------------------------
(* read_time_machine *)

Uppers == <<"A", "B", "C", "D", "E", "F", "G", "H", "I", "J", "K", "L", "M",
            "N", "O", "P", "Q", "R", "S", "T", "U", "V", "W", "X", "Y", "Z">>
Lowers == <<"a", "b", "c", "d", "e", "f", "g", "h", "i", "j", "k", "l", "m",
            "n", "o", "p", "q", "r", "s", "t", "u", "v", "w", "x", "y", "z">>

\* the class [A-Za-z]
IsLetter(c) == c \in Range(Uppers) \/ c \in Range(Lowers)

\* the characters str.strip() and str.split() take for whitespace
IsSpace(c) == c \in {" ", "\n", "\t", "\r"}

\* str.lower() on one character
LowerChar(c) ==
    IF c \in Range(Uppers)
    THEN Lowers[CHOOSE i \in DOMAIN Uppers : Uppers[i] = c]
    ELSE c

\* str.lower()
Lower(s) == [i \in DOMAIN s |-> LowerChar(s[i])]

RECURSIVE ReSubFrom(_, _)
\* re.sub('[^A-Za-z]+', ' ', s) from position k on: every maximal run of
\* characters outside A-Za-z becomes one space
ReSubFrom(s, k) ==
    IF k > Len(s) THEN <<>>
    ELSE IF IsLetter(s[k]) THEN <<s[k]>> \o ReSubFrom(s, k + 1)
    ELSE IF k > 1 /\ ~IsLetter(s[k - 1]) THEN ReSubFrom(s, k + 1)
    ELSE <<" ">> \o ReSubFrom(s, k + 1)

ReSub(s) == ReSubFrom(s, 1)

RECURSIVE LStrip(_)
LStrip(s) == IF s # <<>> /\ IsSpace(Head(s)) THEN LStrip(Tail(s)) ELSE s

RECURSIVE RStrip(_)
RStrip(s) ==
    IF s # <<>> /\ IsSpace(s[Len(s)]) THEN RStrip(SubSeq(s, 1, Len(s) - 1)) ELSE s

\* str.strip()
Strip(s) == RStrip(LStrip(s))

\* f.readlines(): every line with its newline (the text ends with one)
ReadLines(f) == [i \in DOMAIN f |-> f[i] \o <<"\n">>]

\* Mutant: the line is normalized without strip().
NormalizeLine_NoStrip(line) == Lower(ReSub(line))

\* re.sub('[^A-Za-z]+', ' ', line).strip().lower()
NormalizeLine(line) == Lower(Strip(ReSub(line)))

read_time_machine(f) ==
    LET lines == ReadLines(f)
    IN  [i \in DOMAIN lines |-> NormalizeLine(lines[i])]

----------------------------------------------------------------------------
(* tokenize *)

RECURSIVE SplitFrom(_, _, _)
\* str.split() from position k on, `word` the characters of the word being read
SplitFrom(s, k, word) ==
    IF k > Len(s) THEN (IF word = <<>> THEN <<>> ELSE <<word>>)
    ELSE IF IsSpace(s[k])
         THEN (IF word = <<>> THEN <<>> ELSE <<word>>) \o SplitFrom(s, k + 1, <<>>)
         ELSE SplitFrom(s, k + 1, Append(word, s[k]))

RECURSIVE SplitOnSpaceFrom(_, _, _)
SplitOnSpaceFrom(s, k, word) ==
    IF k > Len(s) THEN <<word>>
    ELSE IF s[k] = " " THEN <<word>> \o SplitOnSpaceFrom(s, k + 1, <<>>)
    ELSE SplitOnSpaceFrom(s, k + 1, Append(word, s[k]))

\* Mutant: line.split(' '), which cuts at every single space.
Split_OnSpace(s) == SplitOnSpaceFrom(s, 1, <<>>)

\* str.split()
Split(s) == SplitFrom(s, 1, <<>>)

\* Mutant: the spaces of the line are left out.
ListOfStr_NoSpaces(s) ==
    LET kept == SelectSeq(s, LAMBDA c : c # " ")
    IN  [i \in DOMAIN kept |-> <<kept[i]>>]

\* list(line)
ListOfStr(s) == [i \in DOMAIN s |-> <<s[i]>>]

\* the text print() is given for an unknown token type, before the type itself
UnknownTokenType == "error: unknown token type: "

tokenize(lines, token) ==
    IF token = "word" THEN Returned([i \in DOMAIN lines |-> Split(lines[i])])
    ELSE IF token = "char" THEN Returned([i \in DOMAIN lines |-> ListOfStr(lines[i])])
    ELSE ReturnedNone(<<UnknownTokenType, token>>)

----------------------------------------------------------------------------
(* load_corpus_time_machine *)

\* a list of token lists as a `tokens` argument
AsTokens(tokenLists) == [i \in DOMAIN tokenLists |-> ListElem(tokenLists[i])]

\* [vocab[token] for line in tokens for token in line]
IndicesOf(v, toks) ==
    LET flat == Flatten(toks)
    IN  [i \in DOMAIN flat |-> GetItem(v, StrElem(flat[i]))]

\* Mutant: the slice is taken whatever the sign of max_tokens.
Truncate_Always(corpus, max_tokens) == PySliceTo(corpus, max_tokens)

\* if max_tokens > 0: corpus = corpus[:max_tokens]
Truncate(corpus, max_tokens) ==
    IF max_tokens > 0 THEN PySliceTo(corpus, max_tokens) ELSE corpus

\* Mutant: the vocabulary is built with min_freq=2.
load_corpus_time_machine_MinFreq2(f, max_tokens) ==
    LET lines == read_time_machine(f)
        toks == AsTokens(tokenize(lines, "char").value)
        vocab == VocabNew(toks, 2, <<>>)
        corpus == IndicesOf(vocab, toks)
    IN  [corpus |-> Truncate(corpus, max_tokens), vocab |-> vocab, tokens |-> toks]

\* Mutant: the token stream is cut to max_tokens before the vocabulary is built.
load_corpus_time_machine_CutFirst(f, max_tokens) ==
    LET lines == read_time_machine(f)
        toks == AsTokens(tokenize(lines, "char").value)
        cut == Truncate(Flatten(toks), max_tokens)
        vocab == VocabNew([i \in DOMAIN cut |-> StrElem(cut[i])], 0, <<>>)
        corpus == IndicesOf(vocab, toks)
    IN  [corpus |-> Truncate(corpus, max_tokens), vocab |-> vocab, tokens |-> toks]

load_corpus_time_machine(f, max_tokens) ==
    LET lines == read_time_machine(f)
        toks == AsTokens(tokenize(lines, "char").value)
        vocab == VocabNew(toks, 0, <<>>)
        corpus == IndicesOf(vocab, toks)
    IN  [corpus |-> Truncate(corpus, max_tokens), vocab |-> vocab, tokens |-> toks]

----------------------------------------------------------------------------
(* The inputs drawn *)

A == <<"a">>
B == <<"b">>
C == <<"c">>

\* tokens of the collections given to Vocab: two words and the literal '<unk>'
CorpusTokens == {A, B, UNK}
\* tokens looked up: also a reserved token and a word of no collection
QueryTokens == CorpusTokens \cup {PAD, C}

FlatOf(s) == [i \in DOMAIN s |-> StrElem(s[i])]

\* 1D token lists
FlatInputs == {FlatOf(s) : s \in SeqsUpTo(CorpusTokens, MaxLen)}

RECURSIVE LinesOf(_, _, _)
\* the lists of exactly k lists over S that hold at most n items in all
LinesOf(S, k, n) ==
    IF k = 0 THEN {<<>>}
    ELSE UNION {{<<l>> \o rest : l \in [1..m -> S], rest \in LinesOf(S, k - 1, n - m)} :
                m \in 0..n}

\* 2D token lists: at most MaxLines lines (empty ones too) of MaxNested
\* tokens in all
NestedInputs ==
    {AsTokens(ls) : ls \in UNION {LinesOf(CorpusTokens, k, MaxNested) : k \in 0..MaxLines}}

\* the collection of the documented example: a, b, a, c, a, b
Scenario == FlatOf(<<A, B, A, C, A, B>>)

TokenInputs == FlatInputs \cup NestedInputs \cup {Scenario}

MinFreqs == {-1} \cup (0..MaxMinFreq)

\* reserved_tokens lists: distinct or repeated, of tokens in or out of the
\* collection, the literal '<unk>' too
ReservedInputs == SeqsUpTo({PAD, A, UNK}, MaxReserved)

\* characters of the file: a lower-case and an upper-case letter, a space and
\* a character that is neither letter nor whitespace
RawChars == {"a", "B", " ", "1"}

\* files: at most MaxLines lines (empty ones too) of MaxChars characters in all
Files == UNION {LinesOf(RawChars, k, MaxChars) : k \in 0..MaxLines}

\* the token types given to tokenize
TokenTypes == {"word", "char", "sentence"}

MaxTokensInputs == -1..MaxTokens

\* indices looked up: every index of the vocabulary, as many negative ones,
\* and two beyond each end
IndexInputs(v) == (-VocabLen(v) - 2)..(VocabLen(v) + 1)

\* tokens of the batches looked up: in the collection or not
BatchTokens == {A, B, C}

\* indices of the batches looked up: the first, the last, and one past the last
BatchIndices(v) == {0, VocabLen(v) - 1, VocabLen(v)}

\* the inputs of the vocabularies looked up by index and in batches
LookupTokenInputs == {FlatOf(s) : s \in SeqsUpTo({A, B}, MaxBatch)}
LookupMinFreqs == {0, 2}
LookupReservedInputs == {<<>>, <<PAD>>}

----------------------------------------------------------------------------
(* Vocab: construction and lookups *)

NoVocab == idx_to_token = <<>>

Init ==
    /\ tokens \in TokenInputs
    /\ min_freq \in MinFreqs
    /\ reserved_tokens \in ReservedInputs
    /\ idx_to_token = <<>>
    /\ token_to_idx = <<>>
    /\ token_freqs = <<>>
    /\ file = <<>>
    /\ inputs = <<>>
    /\ op = "none"
    /\ arg = <<>>
    /\ ret = <<>>

\* count_corpus(tokens)
CountCorpus ==
    /\ op' = "count_corpus"
    /\ arg' = tokens
    /\ ret' = Returned(count_corpus(tokens))
    /\ UNCHANGED <<argVars, vocabVars, file, inputs>>

\* vocab = Vocab(tokens, min_freq, reserved_tokens)
VocabInit ==
    /\ NoVocab
    /\ \E v \in {VocabNew(tokens, min_freq, reserved_tokens)} :
           /\ idx_to_token' = v.idx_to_token
           /\ token_to_idx' = v.token_to_idx
           /\ token_freqs' = v.token_freqs
    /\ op' = "Vocab"
    /\ arg' = <<>>
    /\ ret' = <<>>
    /\ UNCHANGED <<argVars, file, inputs>>

\* len(vocab)
LenCall ==
    /\ ~NoVocab
    /\ op' = "len"
    /\ arg' = <<>>
    /\ ret' = Returned(VocabLen(self))
    /\ UNCHANGED <<argVars, vocabVars, file, inputs>>

\* vocab[t], t a str
GetItemCall ==
    /\ ~NoVocab
    /\ \E t \in QueryTokens :
        /\ op' = "getitem"
        /\ arg' = StrElem(t)
        /\ ret' = Returned(GetItem(self, StrElem(t)))
    /\ UNCHANGED <<argVars, vocabVars, file, inputs>>

\* vocab.to_tokens(i), i an int
ToTokensCall ==
    /\ ~NoVocab
    /\ \E i \in IndexInputs(self) :
        /\ op' = "to_tokens"
        /\ arg' = IntElem(i)
        /\ ret' = ToTokens(self, IntElem(i))
    /\ UNCHANGED <<argVars, vocabVars, file, inputs>>

\* vocab[ts], ts a list or a tuple of str
GetItemBatch ==
    /\ ~NoVocab
    /\ \E ts \in SeqsUpTo(BatchTokens, MaxBatch), e \in {ListElem(<<>>), TupleElem(<<>>)} :
        /\ op' = "getitem"
        /\ arg' = [e EXCEPT !.list = ts]
        /\ ret' = Returned(GetItem(self, [e EXCEPT !.list = ts]))
    /\ UNCHANGED <<argVars, vocabVars, file, inputs>>

\* vocab.to_tokens(is), is a list or a tuple of int
ToTokensBatch ==
    /\ ~NoVocab
    /\ \E is \in SeqsUpTo(BatchIndices(self), MaxBatch),
          e \in {IntListElem(<<>>), IntTupleElem(<<>>)} :
        /\ op' = "to_tokens"
        /\ arg' = [e EXCEPT !.list = is]
        /\ ret' = ToTokens(self, [e EXCEPT !.list = is])
    /\ UNCHANGED <<argVars, vocabVars, file, inputs>>

\* Construction from every drawn input, and the lookups of one token.
Next ==
    \/ CountCorpus
    \/ VocabInit
    \/ LenCall
    \/ GetItemCall

Spec == Init /\ [][Next]_vars

\* The lookups by index and of batches, on the vocabularies of fewer inputs.
InitLookup ==
    /\ tokens \in LookupTokenInputs
    /\ min_freq \in LookupMinFreqs
    /\ reserved_tokens \in LookupReservedInputs
    /\ idx_to_token = <<>>
    /\ token_to_idx = <<>>
    /\ token_freqs = <<>>
    /\ file = <<>>
    /\ inputs = <<>>
    /\ op = "none"
    /\ arg = <<>>
    /\ ret = <<>>

NextLookup ==
    \/ VocabInit
    \/ ToTokensCall
    \/ GetItemBatch
    \/ ToTokensBatch

SpecLookup == InitLookup /\ [][NextLookup]_vars

----------------------------------------------------------------------------
(* The text pipeline: read_time_machine, tokenize, load_corpus_time_machine *)

InitText ==
    /\ file \in Files
    /\ inputs = <<>>
    /\ tokens = <<>>
    /\ min_freq = 0
    /\ reserved_tokens = <<>>
    /\ idx_to_token = <<>>
    /\ token_to_idx = <<>>
    /\ token_freqs = <<>>
    /\ op = "none"
    /\ arg = <<>>
    /\ ret = <<>>

\* lines = read_time_machine()
ReadTimeMachine ==
    /\ op' = "read_time_machine"
    /\ arg' = <<>>
    /\ ret' = Returned(read_time_machine(file))
    /\ UNCHANGED <<argVars, vocabVars, file, inputs>>

\* tokenize(lines, token), lines the file's lines as read or as normalized
TokenizeCall ==
    /\ \E token \in TokenTypes, lines \in {ReadLines(file), read_time_machine(file)} :
        /\ op' = "tokenize"
        /\ arg' = [lines |-> lines, token |-> token]
        /\ ret' = tokenize(lines, token)
    /\ UNCHANGED <<argVars, vocabVars, file, inputs>>

\* corpus, vocab = load_corpus_time_machine(max_tokens)
LoadCorpus ==
    /\ \E max_tokens \in MaxTokensInputs :
        \E r \in {load_corpus_time_machine(file, max_tokens)} :
            /\ op' = "load_corpus_time_machine"
            /\ arg' = max_tokens
            /\ ret' = Returned(r.corpus)
            /\ tokens' = r.tokens
            /\ min_freq' = 0
            /\ reserved_tokens' = <<>>
            /\ idx_to_token' = r.vocab.idx_to_token
            /\ token_to_idx' = r.vocab.token_to_idx
            /\ token_freqs' = r.vocab.token_freqs
    /\ UNCHANGED <<file, inputs>>

NextText == ReadTimeMachine \/ TokenizeCall \/ LoadCorpus

SpecText == InitText /\ [][NextText]_vars

----------------------------------------------------------------------------
(* Tensors *)

(* A tensor is its shape and its elements in row-major order of their      *)
(* indices.  Indices are 0-based, as in the code: element [i0, i1, ...] is *)
(* position Ravel(<<i0, i1, ...>>, shape) + 1 of data.                     *)
Tensor(shape, data) == [kind |-> "tensor", shape |-> shape, data |-> data]

\* the value None given for a tensor argument
None == [kind |-> "None", shape |-> <<>>, data |-> <<>>]

RECURSIVE Prod(_)
\* the number of elements of a tensor of the shape
Prod(shape) == IF shape = <<>> THEN 1 ELSE Head(shape) * Prod(Tail(shape))

\* the number of elements that one step along dimension i passes over
Stride(shape, i) == Prod(SubSeq(shape, i + 1, Len(shape)))

RECURSIVE RavelFrom(_, _, _)
RavelFrom(idx, shape, i) ==
    IF i > Len(shape) THEN 0
    ELSE idx[i] * Stride(shape, i) + RavelFrom(idx, shape, i + 1)

\* the row-major offset of the element with the indices idx
Ravel(idx, shape) == RavelFrom(idx, shape, 1)

\* the indices of the element at the row-major offset
Unravel(offset, shape) ==
    [i \in DOMAIN shape |-> (offset \div Stride(shape, i)) % shape[i]]

\* X[idx]
At(X, idx) == X.data[Ravel(idx, X.shape) + 1]

\* X.reshape(*shape), one entry of shape possibly -1
Reshape(X, shape) ==
    LET size == Prod(X.shape)
        known == Prod(SelectSeq(shape, LAMBDA d : d # -1))
        inferred == [i \in DOMAIN shape |->
                        IF shape[i] = -1 THEN size \div known ELSE shape[i]]
    IN  IF known = 0 \/ Prod(inferred) # size THEN Raised("RuntimeError")
        ELSE Returned(Tensor(inferred, X.data))

\* X.permute(*dims)
Permute(X, dims) ==
    LET shape == [i \in DOMAIN dims |-> X.shape[dims[i] + 1]]
        From(idx) == [a \in DOMAIN X.shape |->
                         idx[CHOOSE i \in DOMAIN dims : dims[i] = a - 1]]
    IN  Tensor(shape, [p \in 1..Prod(shape) |-> At(X, From(Unravel(p - 1, shape)))])

\* Mutant: valid_lens.repeat(repeats) for a vector, the whole tensor tiled.
repeat_interleave_Tiled(v, repeats) ==
    Tensor(<<v.shape[1] * repeats>> \o Tail(v.shape),
           [p \in 1..(Prod(v.shape) * repeats) |-> v.data[((p - 1) % Prod(v.shape)) + 1]])

\* torch.repeat_interleave(v, repeats=repeats, dim=0)
repeat_interleave(v, repeats) ==
    LET row == Prod(Tail(v.shape))
    IN  Tensor(<<v.shape[1] * repeats>> \o Tail(v.shape),
               [p \in 1..(Prod(v.shape) * repeats) |->
                   v.data[((p - 1) \div (row * repeats)) * row + ((p - 1) % row) + 1]])

----------------------------------------------------------------------------
(* Multi-head attention *)

\* Mutant: the heads are not moved in front of the queries.
transpose_qkv_NoPermute(X, num_heads) ==
    LET split == Reshape(X, <<X.shape[1], X.shape[2], num_heads, -1>>)
    IN  IF split.outcome = "raised" THEN split
        ELSE Reshape(split.value, <<-1, split.value.shape[3], split.value.shape[4]>>)

transpose_qkv(X, num_heads) ==
    LET split == Reshape(X, <<X.shape[1], X.shape[2], num_heads, -1>>)
    IN  IF split.outcome = "raised" THEN split
        ELSE LET heads == Permute(split.value, <<0, 2, 1, 3>>)
             IN  Reshape(heads, <<-1, heads.shape[3], heads.shape[4]>>)

transpose_output(X, num_heads) ==
    LET split == Reshape(X, <<-1, num_heads, X.shape[2], X.shape[3]>>)
    IN  IF split.outcome = "raised" THEN split
        ELSE LET merged == Permute(split.value, <<0, 2, 1, 3>>)
             IN  Reshape(merged, <<merged.shape[1], merged.shape[2], -1>>)

\* a tensor of the shape whose elements are all different: element p is the
\* pair of the name and p
Labelled(shape, name) == Tensor(shape, [p \in 1..Prod(shape) |-> <<name, p>>])

\* self.attention(queries, keys, values, valid_lens): d2l.DotProductAttention
\* is not part of the repository; its output has one row per query and the
\* width of the values
attention(queries, keys, values, valid_lens) ==
    Labelled(<<queries.shape[1], queries.shape[2], values.shape[3]>>, "o")

\* MultiHeadAttention.forward on queries, keys and values as W_q, W_k and W_v
\* give them: the tensors given to self.attention, and the tensor given to
\* self.W_o
forward(queries, keys, values, valid_lens, num_heads) ==
    LET q == transpose_qkv(queries, num_heads)
        k == transpose_qkv(keys, num_heads)
        v == transpose_qkv(values, num_heads)
    IN  IF q.outcome = "raised" THEN q
        ELSE IF k.outcome = "raised" THEN k
        ELSE IF v.outcome = "raised" THEN v
        ELSE LET lens == IF valid_lens # None
                         THEN repeat_interleave(valid_lens, num_heads)
                         ELSE valid_lens
                 output == attention(q.value, k.value, v.value, lens)
                 output_concat == transpose_output(output, num_heads)
             IN  IF output_concat.outcome = "raised" THEN output_concat
                 ELSE Returned([queries |-> q.value, keys |-> k.value,
                                values |-> v.value, valid_lens |-> lens,
                                output_concat |-> output_concat.value])

\* valid_lens for a batch size and a number of queries: None, a vector of one
\* length per batch element, or a matrix of one row of lengths per batch
\* element
ValidLens(batch_size, num_queries) ==
    {None}
        \cup {Tensor(<<batch_size>>, f) : f \in [1..batch_size -> 1..MaxValidLen]}
        \cup {Tensor(<<batch_size, num_queries>>,
                     [p \in 1..(batch_size * num_queries) |-> p])}

\* the arguments of a call of forward, after W_q, W_k and W_v, with the
\* module's num_heads
AttentionInputs ==
    UNION {
        {[queries |-> Labelled(<<s[1], s[2], s[4]>>, "q"),
          keys |-> Labelled(<<s[1], s[3], s[4]>>, "k"),
          values |-> Labelled(<<s[1], s[3], s[4]>>, "v"),
          valid_lens |-> lens,
          num_heads |-> s[5]] : lens \in ValidLens(s[1], s[2])} :
        s \in (1..MaxBatchSize) \X (1..MaxPairs) \X (1..MaxPairs)
                  \X (1..MaxHiddens) \X (1..MaxHeads)}

InitAttention ==
    /\ inputs \in AttentionInputs
    /\ tokens = <<>>
    /\ min_freq = 0
    /\ reserved_tokens = <<>>
    /\ idx_to_token = <<>>
    /\ token_to_idx = <<>>
    /\ token_freqs = <<>>
    /\ file = <<>>
    /\ op = "none"
    /\ arg = <<>>
    /\ ret = <<>>

\* transpose_qkv(self.W_q(queries), self.num_heads)
TransposeQkv ==
    /\ op' = "transpose_qkv"
    /\ arg' = [X |-> inputs.queries, num_heads |-> inputs.num_heads]
    /\ ret' = transpose_qkv(inputs.queries, inputs.num_heads)
    /\ UNCHANGED <<argVars, vocabVars, file, inputs>>

\* transpose_output on what transpose_qkv has just returned
TransposeOutput ==
    /\ op = "transpose_qkv"
    /\ ret.outcome = "value"
    /\ op' = "transpose_output"
    /\ arg' = [X |-> ret.value, num_heads |-> arg.num_heads]
    /\ ret' = transpose_output(ret.value, arg.num_heads)
    /\ UNCHANGED <<argVars, vocabVars, file, inputs>>

\* attention(queries, keys, values, valid_lens)
Forward ==
    /\ op' = "forward"
    /\ arg' = [queries |-> inputs.queries, keys |-> inputs.keys,
               values |-> inputs.values, valid_lens |-> inputs.valid_lens]
    /\ ret' = forward(inputs.queries, inputs.keys, inputs.values,
                      inputs.valid_lens, inputs.num_heads)
    /\ UNCHANGED <<argVars, vocabVars, file, inputs>>

NextAttention == TransposeQkv \/ TransposeOutput \/ Forward

SpecAttention == InitAttention /\ [][NextAttention]_vars

----------------------------------------------------------------------------
(* What the claims speak of *)

\* the distinct tokens of the collection `tokens`, flat or nested
CollectionTokens ==
    {tokens[i].str : i \in {k \in DOMAIN tokens : tokens[k].kind = "str"}}
        \cup UNION {Range(tokens[i].list) : i \in DOMAIN tokens}

\* the number of occurrences of token t in the collection `tokens`
Occurrences(t) ==
    Cardinality({i \in DOMAIN tokens : tokens[i].kind = "str" /\ tokens[i].str = t})
    + Cardinality({p \in UNION {{<<i, j>> : j \in DOMAIN tokens[i].list} : i \in DOMAIN tokens} :
                      tokens[p[1]].list[p[2]] = t})

\* the tokens of the collection that reach min_freq
Frequent == {t \in CollectionTokens : Occurrences(t) >= min_freq}

Built == ~NoVocab

\* vocab[t] of a single token has just been evaluated
LookedUpToken == op = "getitem" /\ arg.kind = "str"

\* vocab.to_tokens(i) of a single index has just been evaluated
LookedUpIndex == op = "to_tokens" /\ arg.kind = "int"

----------------------------------------------------------------------------
(* C1 *)

\* C1 (as claimed): in every constructed Vocab, whatever the collection,
\* min_freq and reserved_tokens, the entries of idx_to_token are pairwise
\* distinct, the keys of token_to_idx are exactly the entries of idx_to_token,
\* and token_to_idx[idx_to_token[i]] = i for every index i.
C1_ExactInverse ==
    Built =>
        /\ \A i, j \in DOMAIN idx_to_token : idx_to_token[i] = idx_to_token[j] => i = j
        /\ DOMAIN token_to_idx = Range(idx_to_token)
        /\ \A i \in 0..(Len(idx_to_token) - 1) : token_to_idx[idx_to_token[i + 1]] = i

----------------------------------------------------------------------------
(* C2 *)

\* C2 (as claimed): len(vocab) = 1 + len(reserved_tokens) + the number of
\* distinct tokens of the collection whose count is >= min_freq.
C2_LenCountsEveryFrequent ==
    op = "len" =>
        ret = Returned(1 + Len(reserved_tokens) + Cardinality(Frequent))

\* C2 (amended): len(vocab) = 1 + len(reserved_tokens) + the number of
\* distinct tokens of the collection whose count is >= min_freq and that are
\* neither '<unk>' nor one of reserved_tokens.
C2_Len ==
    op = "len" =>
        ret = Returned(1 + Len(reserved_tokens)
                         + Cardinality(Frequent \ ({UNK} \cup Range(reserved_tokens))))

\* len(vocab) was evaluated for a collection with a frequent token that is
\* reserved, a frequent one that is not, and one below min_freq
C2_Witness ==
    /\ op = "len"
    /\ Frequent \cap Range(reserved_tokens) # {}
    /\ Frequent \ ({UNK} \cup Range(reserved_tokens)) # {}
    /\ CollectionTokens \ Frequent # {}

----------------------------------------------------------------------------
(* C3 *)

\* C3: round trip. For every token t of the collection whose count is
\* >= min_freq, vocab[t] is an index in 0..len(vocab)-1 and
\* vocab.to_tokens(vocab[t]) returns t.
C3_RoundTrip ==
    (LookedUpToken /\ arg.str \in Frequent) =>
        /\ ret.outcome = "value"
        /\ ret.value \in 0..(VocabLen(self) - 1)
        /\ ToTokens(self, IntElem(ret.value)) = Returned(arg.str)

\* vocab[t] was evaluated for a frequent token that is neither '<unk>' nor
\* reserved, in a vocabulary that also left a token out
C3_Witness ==
    /\ LookedUpToken
    /\ arg.str \in Frequent \ ({UNK} \cup Range(reserved_tokens))
    /\ ret.value > Len(reserved_tokens)
    /\ CollectionTokens \ Frequent # {}

----------------------------------------------------------------------------
(* C4 *)

\* C4 (as claimed): for every token t absent from the collection, or whose
\* count there is below min_freq, vocab[t] returns 0 and raises no error.
C4_AbsentIsUnknown ==
    (LookedUpToken /\ arg.str \notin Frequent) => ret = Returned(unk)

\* C4 (amended): for every token t that is not one of reserved_tokens and is
\* absent from the collection, or has a count there below min_freq, vocab[t]
\* returns 0 and raises no error.
C4_Unknown ==
    (LookedUpToken /\ arg.str \notin Frequent /\ arg.str \notin Range(reserved_tokens)) =>
        ret = Returned(unk)

\* vocab[t] was evaluated for a token of the collection below min_freq, not
\* reserved and not '<unk>', while another token of the collection got an index
C4_Witness ==
    /\ LookedUpToken
    /\ arg.str \in CollectionTokens \ (Frequent \cup Range(reserved_tokens) \cup {UNK})
    /\ Frequent \ ({UNK} \cup Range(reserved_tokens)) # {}
    /\ ret = Returned(unk)

----------------------------------------------------------------------------
(* C5 *)

\* C5 (as claimed): vocab.to_tokens(i) returns idx_to_token[i] when
\* 0 <= i < len(vocab), and for every other i, negative ones too, it fails
\* with an error and returns no token.
C5_ExactBounds ==
    LookedUpIndex =>
        IF 0 <= arg.int /\ arg.int < VocabLen(self)
        THEN ret = Returned(idx_to_token[arg.int + 1])
        ELSE ret.outcome = "raised"

----------------------------------------------------------------------------
(* C6 *)

\* C6 (as claimed): tokenize called with a token type other than 'word' and
\* 'char' does not complete normally: it raises to its caller and returns
\* nothing to continue with.
C6_UnknownTypeRaises ==
    (op = "tokenize" /\ arg.token \notin {"word", "char"}) => ret.outcome = "raised"

----------------------------------------------------------------------------
(* C7 *)

\* the entries of idx_to_token past '<unk>' and the reserved tokens
PastReserved == (Len(reserved_tokens) + 2)..Len(idx_to_token)

\* C7: in every constructed Vocab, idx_to_token[0] is '<unk>', the next
\* len(reserved_tokens) entries are reserved_tokens in the caller's order, and
\* the entries past them are in non-increasing order of their count in the
\* collection; a, b, a, c, a, b with min_freq 0 and no reserved tokens gives
\* ['<unk>', 'a', 'b', 'c'].
C7_Order ==
    Built =>
        /\ idx_to_token[1] = UNK
        /\ Len(idx_to_token) >= 1 + Len(reserved_tokens)
        /\ SubSeq(idx_to_token, 2, 1 + Len(reserved_tokens)) = reserved_tokens
        /\ \A i, j \in PastReserved :
              i < j => Occurrences(idx_to_token[i]) >= Occurrences(idx_to_token[j])
        /\ (tokens = Scenario /\ min_freq = 0 /\ reserved_tokens = <<>>)
              => idx_to_token = <<UNK, A, B, C>>

\* a Vocab was constructed with reserved tokens, from a collection whose
\* first token is rarer than a later one, both of them in the vocabulary
C7_Witness ==
    /\ Built
    /\ reserved_tokens # <<>>
    /\ \E i, j \in PastReserved :
          /\ i < j
          /\ Occurrences(idx_to_token[i]) > Occurrences(idx_to_token[j])
          /\ tokens[1].kind = "str" /\ tokens[1].str = idx_to_token[j]

----------------------------------------------------------------------------
(* C8 *)

RECURSIVE StreamOf(_)
\* the tokens of a collection in reading order, as a flat list
StreamOf(toks) ==
    IF toks = <<>> THEN <<>>
    ELSE (IF toks[1].kind = "str" THEN <<toks[1]>> ELSE FlatOf(toks[1].list))
             \o StreamOf(Tail(toks))

\* C8: count_corpus gives each distinct token of a list of token lists, empty
\* lines and the empty list included, exactly its number of occurrences in the
\* flattened stream, and Vocab built from the list of token lists has the
\* idx_to_token, token_to_idx and token_freqs of Vocab built from the
\* flattened stream.
C8_Nesting ==
    /\ op = "count_corpus" =>
          /\ ret.outcome = "value"
          /\ {ret.value[i][1] : i \in DOMAIN ret.value} = CollectionTokens
          /\ \A i, j \in DOMAIN ret.value : ret.value[i][1] = ret.value[j][1] => i = j
          /\ \A i \in DOMAIN ret.value : ret.value[i][2] = Occurrences(ret.value[i][1])
    /\ op = "Vocab" => self = VocabNew(StreamOf(tokens), min_freq, reserved_tokens)

\* a Vocab was constructed from a list of two token lists, one of them empty,
\* that hold two tokens, and count_corpus was evaluated on it
C8_Witness ==
    /\ op = "count_corpus"
    /\ Built
    /\ Len(tokens) = 2
    /\ \A i \in DOMAIN tokens : tokens[i].kind = "list"
    /\ \E i \in DOMAIN tokens : tokens[i].list = <<>>
    /\ Len(StreamOf(tokens)) = 2

----------------------------------------------------------------------------
(* C9 *)

\* a list or tuple was looked up
Batch == arg.kind \in {"list", "tuple"}

\* every index of the batch is in 0..len(vocab)-1
InRange == \A j \in DOMAIN arg.list : 0 <= arg.list[j] /\ arg.list[j] < VocabLen(self)

\* C9: for a list or tuple ts of tokens, vocab[ts] is a list as long as ts
\* whose j-th element is vocab[ts[j]]; for a list or tuple of in-range
\* indices, vocab.to_tokens of it is a list as long whose j-th element is
\* vocab.to_tokens of the j-th index.
C9_Batch ==
    /\ (op = "getitem" /\ Batch) =>
          /\ ret.outcome = "value"
          /\ Len(ret.value) = Len(arg.list)
          /\ \A j \in DOMAIN arg.list : ret.value[j] = GetItem(self, StrElem(arg.list[j]))
    /\ (op = "to_tokens" /\ Batch /\ InRange) =>
          /\ ret.outcome = "value"
          /\ Len(ret.value) = Len(arg.list)
          /\ \A j \in DOMAIN arg.list :
                Returned(ret.value[j]) = ToTokens(self, IntElem(arg.list[j]))

\* vocab[ts] was evaluated for a tuple of two tokens, the first unknown, the
\* second with an index of its own
C9_Witness ==
    /\ op = "getitem"
    /\ arg.kind = "tuple"
    /\ Len(arg.list) = 2
    /\ ret.value[1] = unk
    /\ ret.value[2] > 0

----------------------------------------------------------------------------
(* C10 *)

\* the index sequence of the whole text, as load_corpus_time_machine left it
\* in `tokens` and the vocabulary
FullCorpus == IndicesOf(self, tokens)

\* C10: load_corpus_time_machine(max_tokens) returns a prefix of the full
\* index sequence: for max_tokens > 0 the first min(max_tokens, full length)
\* indices, for max_tokens <= 0 all of them.
C10_Prefix ==
    op = "load_corpus_time_machine" =>
        /\ ret.outcome = "value"
        /\ IF arg > 0
           THEN /\ Len(ret.value) = Min2(arg, Len(FullCorpus))
                /\ \A i \in DOMAIN ret.value : ret.value[i] = FullCorpus[i]
           ELSE ret.value = FullCorpus

\* load_corpus_time_machine was called with 0 < max_tokens < the length of
\* the full corpus, on a file of two lines with text on each
C10_Witness ==
    /\ op = "load_corpus_time_machine"
    /\ arg > 0
    /\ arg < Len(FullCorpus)
    /\ Len(tokens) = 2
    /\ \A i \in DOMAIN tokens : tokens[i].list # <<>>

----------------------------------------------------------------------------
(* C11 *)

Loaded == op = "load_corpus_time_machine"

\* the characters of the normalized lines of the file, line after line
NormalizedText == Concat(read_time_machine(file))

\* the number of occurrences of character c in the normalized lines
CharCount(c) == Cardinality({i \in DOMAIN NormalizedText : NormalizedText[i] = c})

\* C11: truncation does not affect the vocabulary. Whatever max_tokens is,
\* load_corpus_time_machine returns, for one file, the same idx_to_token,
\* token_to_idx and token_freqs, and token_freqs counts the characters of the
\* whole untruncated text.
C11_VocabUntruncated ==
    Loaded =>
        /\ \A m \in MaxTokensInputs : load_corpus_time_machine(file, m).vocab = self
        /\ {token_freqs[i][1] : i \in DOMAIN token_freqs}
              = {<<NormalizedText[i]>> : i \in DOMAIN NormalizedText}
        /\ \A i \in DOMAIN token_freqs : token_freqs[i][2] = CharCount(token_freqs[i][1][1])

\* load_corpus_time_machine cut the corpus, and the vocabulary holds a
\* character that the returned corpus no longer has
C11_Witness ==
    /\ Loaded
    /\ arg > 0
    /\ Len(ret.value) < Len(NormalizedText)
    /\ \E i \in 1..(Len(idx_to_token) - 1) : i \notin Range(ret.value)

----------------------------------------------------------------------------
(* C12 *)

\* C12: tokenize in 'char' mode returns one token list per line, in order,
\* as long as the line has characters (spaces included) and with the line's
\* j-th character as its j-th token.
C12_CharTokens ==
    (op = "tokenize" /\ arg.token = "char") =>
        /\ ret.outcome = "value"
        /\ Len(ret.value) = Len(arg.lines)
        /\ \A i \in DOMAIN arg.lines :
              /\ Len(ret.value[i]) = Len(arg.lines[i])
              /\ \A j \in DOMAIN arg.lines[i] : ret.value[i][j] = <<arg.lines[i][j]>>

\* tokenize in 'char' mode was given two lines, one of them with a space
\* as its second of three characters
C12_Witness ==
    /\ op = "tokenize"
    /\ arg.token = "char"
    /\ Len(arg.lines) = 2
    /\ \E i \in DOMAIN arg.lines :
          /\ Len(arg.lines[i]) = 3
          /\ arg.lines[i][2] = " "
          /\ ret.value[i][2] = <<" ">>

----------------------------------------------------------------------------
(* C13 *)

\* the maximal runs of non-whitespace characters of a line, each <<first, last>>
Runs(line) ==
    {r \in (DOMAIN line) \X (DOMAIN line) :
        /\ r[1] <= r[2]
        /\ \A k \in r[1]..r[2] : ~IsSpace(line[k])
        /\ (r[1] = 1 \/ IsSpace(line[r[1] - 1]))
        /\ (r[2] = Len(line) \/ IsSpace(line[r[2] + 1]))}

\* C13: tokenize in 'word' mode returns one token list per line, in order;
\* each holds exactly the line's maximal runs of non-whitespace characters in
\* reading order, no empty token and no token with whitespace in it, and an
\* empty or whitespace-only line gives the empty list.
C13_WordTokens ==
    (op = "tokenize" /\ arg.token = "word") =>
        /\ ret.outcome = "value"
        /\ Len(ret.value) = Len(arg.lines)
        /\ \A i \in DOMAIN arg.lines :
              /\ Len(ret.value[i]) = Cardinality(Runs(arg.lines[i]))
              /\ \A r \in Runs(arg.lines[i]) :
                    ret.value[i][1 + Cardinality({q \in Runs(arg.lines[i]) : q[1] < r[1]})]
                        = SubSeq(arg.lines[i], r[1], r[2])
              /\ \A j \in DOMAIN ret.value[i] :
                    /\ ret.value[i][j] # <<>>
                    /\ \A k \in DOMAIN ret.value[i][j] : ~IsSpace(ret.value[i][j][k])
              /\ (\A k \in DOMAIN arg.lines[i] : IsSpace(arg.lines[i][k]))
                    => ret.value[i] = <<>>

\* tokenize in 'word' mode was given a whitespace-only line and a line of two
\* words
C13_Witness ==
    /\ op = "tokenize"
    /\ arg.token = "word"
    /\ Len(arg.lines) = 2
    /\ \E i, j \in DOMAIN arg.lines :
          /\ arg.lines[i] # <<>>
          /\ ret.value[i] = <<>>
          /\ Len(ret.value[j]) = 2

----------------------------------------------------------------------------
(* C14 *)

\* the letters of a line, in order
LettersOf(line) == SelectSeq(line, IsLetter)

\* C14: read_time_machine gives one line per raw line; it holds only a-z and
\* spaces, neither starts nor ends with a space, has no two spaces in a row,
\* and its letters are, in order, the lower-cased English letters of the raw
\* line; a raw line without letters gives the empty string.
C14_Normalized ==
    op = "read_time_machine" =>
        /\ ret.outcome = "value"
        /\ Len(ret.value) = Len(file)
        /\ \A i \in DOMAIN file :
              LET out == ret.value[i]
              IN  /\ \A k \in DOMAIN out : out[k] \in Range(Lowers) \cup {" "}
                  /\ out # <<>> => (out[1] # " " /\ out[Len(out)] # " ")
                  /\ \A k \in 1..(Len(out) - 1) : ~(out[k] = " " /\ out[k + 1] = " ")
                  /\ LettersOf(out) = Lower(LettersOf(file[i]))
                  /\ LettersOf(file[i]) = <<>> => out = <<>>

\* read_time_machine read a line that starts with a non-letter and has an
\* upper-case letter, and gave a shorter, non-empty line for it
C14_Witness ==
    /\ op = "read_time_machine"
    /\ \E i \in DOMAIN file :
          /\ Len(file[i]) >= 2
          /\ ~IsLetter(file[i][1])
          /\ \E k \in DOMAIN file[i] : file[i][k] \in Range(Uppers)
          /\ ret.value[i] # <<>>
          /\ Len(ret.value[i]) < Len(file[i])

----------------------------------------------------------------------------
(* C17 *)

\* the pair of the ranked list is kept by a scan of the whole list: its count
\* reaches min_freq and its token is neither '<unk>' nor a reserved token
Kept(pair) == pair[2] >= min_freq /\ pair[1] \notin ({UNK} \cup Range(reserved_tokens))

\* the tokens of a list of (token, count) pairs
TokensOf(pairs) == [i \in DOMAIN pairs |-> pairs[i][1]]

\* the positions of the ranked list where the loop breaks: the first with a
\* count below min_freq
BreakPoints ==
    {k \in DOMAIN token_freqs :
        /\ token_freqs[k][2] < min_freq
        /\ \A j \in 1..(k - 1) : token_freqs[j][2] >= min_freq}

\* C17: stopping at the first token with count < min_freq gives indices to
\* the same tokens in the same order as scanning the whole ranked list and
\* keeping every token with count >= min_freq that is not '<unk>' or
\* reserved; no token after the break point has count >= min_freq.
C17_BreakIsFilter ==
    Built =>
        /\ idx_to_token = <<UNK>> \o reserved_tokens \o TokensOf(SelectSeq(token_freqs, Kept))
        /\ \A k \in BreakPoints : \A j \in DOMAIN token_freqs :
              j > k => token_freqs[j][2] < min_freq

\* a Vocab with reserved tokens was constructed whose loop appended a token
\* and then broke with a token still behind the break point
C17_Witness ==
    /\ Built
    /\ reserved_tokens # <<>>
    /\ \E k \in BreakPoints :
          /\ k < Len(token_freqs)
          /\ \E j \in 1..(k - 1) : Kept(token_freqs[j])

----------------------------------------------------------------------------
(* C18 *)

\* C18: the corpus of load_corpus_time_machine holds one index per character
\* of the normalized lines in reading order: no element is the unknown index
\* 0, every element lies in 1..len(vocab)-1, and vocab.to_tokens(corpus) is
\* the first len(corpus) characters of the concatenated normalized lines.
C18_CorpusIsText ==
    Loaded =>
        /\ ret.outcome = "value"
        /\ Len(ret.value) = IF arg > 0 THEN Min2(arg, Len(NormalizedText))
                            ELSE Len(NormalizedText)
        /\ \A i \in DOMAIN ret.value :
              ret.value[i] # unk /\ ret.value[i] \in 1..(VocabLen(self) - 1)
        /\ ToTokens(self, IntListElem(ret.value))
              = Returned([i \in 1..Len(ret.value) |-> <<NormalizedText[i]>>])

\* load_corpus_time_machine read two lines that both normalize to a non-empty
\* line, and its corpus holds two different indices
C18_Witness ==
    /\ Loaded
    /\ Len(file) = 2
    /\ \A i \in DOMAIN file : NormalizeLine(file[i]) # <<>>
    /\ \E i, j \in DOMAIN ret.value : ret.value[i] # ret.value[j]

----------------------------------------------------------------------------
(* C16 *)

\* the shape (B, N, H) of the tensor given to transpose_qkv, and the width of
\* one head
BatchSize == inputs.queries.shape[1]
NumQueries == inputs.queries.shape[2]
NumHiddens == inputs.queries.shape[3]
NumHeads == inputs.num_heads
HeadWidth == NumHiddens \div NumHeads

\* C16: for X of shape (B, N, H) and h dividing H, transpose_qkv(X, h) has
\* shape (B*h, N, H/h) with element [b*h + k, n, d] equal to
\* X[b, n, k*(H/h) + d], and transpose_output(transpose_qkv(X, h), h) is X
\* element for element.
C16_HeadSplitInverse ==
    /\ (op = "transpose_qkv" /\ NumHiddens % NumHeads = 0) =>
          /\ ret.outcome = "value"
          /\ ret.value.shape = <<BatchSize * NumHeads, NumQueries, HeadWidth>>
          /\ \A b \in 0..(BatchSize - 1), k \in 0..(NumHeads - 1),
                n \in 0..(NumQueries - 1), d \in 0..(HeadWidth - 1) :
                At(ret.value, <<b * NumHeads + k, n, d>>)
                    = At(arg.X, <<b, n, k * HeadWidth + d>>)
    /\ op = "transpose_output" =>
          /\ ret.outcome = "value"
          /\ ret.value = inputs.queries

\* transpose_output gave back a tensor of two batch elements, two queries and
\* two heads of width two that transpose_qkv had rearranged
C16_Witness ==
    /\ op = "transpose_output"
    /\ BatchSize = 2 /\ NumQueries = 2 /\ NumHeads = 2 /\ HeadWidth = 2
    /\ arg.X.data # inputs.queries.data
    /\ ret.value.data = inputs.queries.data

----------------------------------------------------------------------------
(* C19 *)

\* row r of a tensor, along its first dimension
Row(X, r) ==
    LET row == Prod(Tail(X.shape))
    IN  SubSeq(X.data, r * row + 1, (r + 1) * row)

\* C19: in forward, after repeat_interleave, row b*h + k of the head-split
\* queries, keys and values holds elements of batch element b only, and the
\* valid length for that row is valid_lens[b], whether valid_lens has shape
\* (B) or (B, num_queries); a valid_lens of None is passed through unchanged.
C19_HeadsKeepValidLens ==
    (op = "forward" /\ ret.outcome = "value") =>
        /\ arg.valid_lens = None => ret.value.valid_lens = None
        /\ arg.valid_lens # None =>
              /\ ret.value.valid_lens.shape
                    = <<BatchSize * NumHeads>> \o Tail(arg.valid_lens.shape)
              /\ \A b \in 0..(BatchSize - 1), k \in 0..(NumHeads - 1) :
                    /\ Row(ret.value.valid_lens, b * NumHeads + k) = Row(arg.valid_lens, b)
                    /\ \A X \in {"queries", "keys", "values"} :
                          Range(Row(ret.value[X], b * NumHeads + k)) \subseteq Range(Row(arg[X], b))

\* forward split two batch elements with different valid lengths into two
\* heads each
C19_Witness ==
    /\ op = "forward"
    /\ ret.outcome = "value"
    /\ BatchSize = 2 /\ NumHeads = 2
    /\ arg.valid_lens # None
    /\ Row(arg.valid_lens, 0) # Row(arg.valid_lens, 1)
    /\ Row(ret.value.valid_lens, 1) = Row(arg.valid_lens, 0)
    /\ Row(ret.value.valid_lens, 2) = Row(arg.valid_lens, 1)

====
